---- MODULE Spec2Model ----
(***************************************************************************)
(* GitHub repo fetcher: the identifier form and store, the per-identifier  *)
(* queries, and the archive endpoint POST /api/saveRepo, which reads the   *)
(* whole archive file, appends one record and writes the whole file back.  *)
(***************************************************************************)
EXTENDS Integers, Sequences, FiniteSets, TLC

\* ------------------------------------------------------------------ bounds
MaxReq == 3        \* POSTs sent to the endpoint by arbitrary clients
MaxArchive0 == 1   \* records in the archive file when the server starts
MaxSubmit == 4     \* form submissions (form and store alone)
MaxListSubmit == 3 \* form submissions (form, store and list display)
MaxListCalls == 5  \* upstream GETs issued by the list display
MaxHookCalls == 4  \* upstream GETs issued by useFetchRepo
MaxAppSubmit == 2  \* form submissions (whole application)
MaxAppCalls == 2   \* upstream GETs issued (whole application)
MaxFairSubmit == 2 \* form submissions (list display, fair scheduling)
MaxFairCalls == 4  \* upstream GETs issued (list display, fair scheduling)
MaxViewCalls == 2  \* upstream GETs issued (archive-viewing display)
MaxShown == 3      \* displayed entries beyond which no re-render is taken

\* --------------------------------------------------------------- constants
MinRepoLen == 3    \* z.string().min(3, ...)
DefaultRetry == 3  \* new QueryClient(): a failed queryFn is retried 3 times

\* ------------------------------------------------------------ value spaces
\* Identifiers that pass the form, and the strings a user may type.
Keys == {"a/a", "b/b"}
Inputs == Keys \cup {"ab"}

\* The upstream answer for an identifier: one JSON object.
Rec(k) == [full_name |-> k]
Records == {Rec(k) : k \in Keys}

\* A request body that is not JSON.
BadJson == [malformed |-> "body"]
Bodies == Records \cup {BadJson}

VARIABLES
  file,        \* public/repoData.json: [kind, data]
  file0,       \* the file when the server started (history)
  reqs,        \* POST invocations, in order of arrival
  field,       \* the form's "repo" input
  submitCount, \* formState.submitCount
  formError,   \* errors.repo is set: the validation message is shown
  repos,       \* useRepoStore: the identifier list, newest first
  repoName,    \* the repoName given to the archive-viewing RepoDetails
  queries,     \* the QueryClient's cache, by queryKey ["repo", k]
  calls,       \* upstream GETs issued so far
  shown,       \* the archive-viewing RepoDetails' repos state, as displayed
  lastNew,     \* newRepo as the [newRepo] effect saw it at its last run
  load,        \* the mount-time GET /repoData.json: sent, served, done
  loadData     \* what that GET read from the archive file

vars == <<file, file0, reqs, field, submitCount, formError, repos,
          repoName, queries, calls, shown, lastNew, load, loadData>>
viewVars == <<shown, lastNew, load, loadData>>
serverVars == <<file, file0, reqs>>
formVars == <<field, submitCount, formError>>
queryVars == <<repoName, queries, calls>>

\* ---------------------------------------------------------- archive file
Absent == [kind |-> "absent", data |-> <<>>]
\* Text on disk that JSON.parse rejects.
Unparsable == [kind |-> "unparsable", data |-> <<>>]
\* Valid JSON that is no array ({}, null, 5): it has no push.
NonArray == [kind |-> "nonarray", data |-> <<>>]

\* JSON.stringify(existingData, null, 2), as writeFile stores it.
Serialize(seq) == [kind |-> "array", data |-> seq]

RECURSIVE SeqsUpTo(_, _)
SeqsUpTo(S, n) ==
  IF n = 0 THEN {<<>>}
  ELSE LET shorter == SeqsUpTo(S, n - 1)
       IN  shorter \cup {Append(s, x) : s \in shorter, x \in S}

Files0 == {Absent, Unparsable, NonArray}
            \cup {Serialize(s) : s \in SeqsUpTo(Records, MaxArchive0)}

\* readRepoData, had its catch recovered from the missing file alone.
ReadRepoData_RethrowParse(f) ==
  IF f.kind = "absent"
  THEN [isArray |-> TRUE, val |-> <<>>]
  ELSE [isArray |-> f.kind = "array", val |-> f.data]

\* readRepoData, had it replaced a value that is no array by [].
ReadRepoData_CoerceArray(f) ==
  IF f.kind = "array"
  THEN [isArray |-> TRUE, val |-> f.data]
  ELSE [isArray |-> TRUE, val |-> <<>>]

\* readRepoData: the parsed file, or [] when readFile or JSON.parse throws.
\* isArray tells whether the value returned has Array.prototype.push.
ReadRepoData(f) ==
  IF f.kind \in {"absent", "unparsable"}
  THEN [isArray |-> TRUE, val |-> <<>>]
  ELSE [isArray |-> f.kind = "array", val |-> f.data]

\* req.json() succeeds.
JsonOk(b) == b \in Records

\* ------------------------------------------------------- POST /api/saveRepo
NewReq(b, who) ==
  [pc |-> IF JsonOk(b) THEN "read" ELSE "done",
   body |-> b,
   by |-> who,
   saw |-> "",
   existing |-> <<>>,
   io |-> "none",
   resp |-> IF JsonOk(b) THEN "none" ELSE "500"]

\* A request arrives and `await req.json()` settles: a body that is not
\* JSON throws into the catch, which answers 500.
Receive(b, who) == reqs' = Append(reqs, NewReq(b, who))

\* The read step, had it put the new record first.
ReadStep_Unshift(r) ==
  LET cur == ReadRepoData(file) IN
  /\ reqs[r].pc = "read"
  /\ reqs' = [reqs EXCEPT ![r] =
       IF cur.isArray
       THEN [@ EXCEPT !.pc = "write", !.saw = file.kind,
                      !.existing = <<reqs[r].body>> \o cur.val]
       ELSE [@ EXCEPT !.pc = "done", !.saw = file.kind, !.resp = "500"]]
  /\ UNCHANGED <<file, file0>>

\* `await readRepoData()` settles, then existingData.push(newRepoData) runs
\* in the same turn; push on a value that is no array throws (500).
ReadStep(r) ==
  LET cur == ReadRepoData(file) IN
  /\ reqs[r].pc = "read"
  /\ reqs' = [reqs EXCEPT ![r] =
       IF cur.isArray
       THEN [@ EXCEPT !.pc = "write", !.saw = file.kind,
                      !.existing = Append(cur.val, reqs[r].body)]
       ELSE [@ EXCEPT !.pc = "done", !.saw = file.kind, !.resp = "500"]]
  /\ UNCHANGED <<file, file0>>

\* What `await writeFile(...)` can do: replace the file, or throw.
WriteOutcomes == {"ok", "fail"}

\* The answer after writeFile: the message, or the catch's 500.
ResponseFor(out) == IF out = "ok" THEN "ok" ELSE "500"

\* A write that re-reads the file and appends to what it holds now.
FileAfterWrite_AppendInPlace(r, out) ==
  IF out = "ok"
  THEN Serialize(Append(ReadRepoData(file).val, reqs[r].body))
  ELSE file

\* The file after writeFile(DATA_FILE_PATH, JSON.stringify(existingData)):
\* the whole file is replaced by what the request holds in existingData.
FileAfterWrite(r, out) ==
  IF out = "ok" THEN Serialize(reqs[r].existing) ELSE file

\* `await writeFile(...)` settles and the response is returned.
WriteStep(r) ==
  /\ reqs[r].pc = "write"
  /\ \E out \in WriteOutcomes :
       /\ file' = FileAfterWrite(r, out)
       /\ reqs' = [reqs EXCEPT ![r] =
            [@ EXCEPT !.pc = "done", !.io = out, !.resp = ResponseFor(out)]]
  /\ UNCHANGED file0

AllDone == \A r \in DOMAIN reqs : reqs[r].pc = "done"

\* --------------------------------------------------------- form and store
\* A schema that accepts every string.
Valid_Any(s) == TRUE

\* The zod schema: z.string().min(3).
Valid(s) == Len(s) >= MinRepoLen

\* The user edits the input; after a first submit the field is revalidated
\* on every change.
Type(s) ==
  /\ field' = s
  /\ formError' = IF submitCount > 0 THEN ~Valid(s) ELSE formError
  /\ UNCHANGED submitCount

\* An addRepo that skips an identifier the list already holds.
AddRepo_Dedup(i, list) ==
  IF \E n \in DOMAIN list : list[n] = i THEN list ELSE <<i>> \o list

\* addRepo: set((state) => ({ repos: [repo, ...state.repos] })).
AddRepo(i, list) == <<i>> \o list

\* handleSubmit(onSubmit): the resolver runs; onSubmit is called only with
\* data the schema accepts, otherwise errors.repo is set.
Submit(bound) ==
  /\ submitCount < bound
  /\ submitCount' = submitCount + 1
  /\ IF Valid(field)
     THEN /\ repos' = AddRepo(field, repos)
          /\ formError' = FALSE
     ELSE /\ repos' = repos
          /\ formError' = TRUE
  /\ UNCHANGED field

\* ---------------------------------------------------------------- queries
Range(s) == {s[n] : n \in DOMAIN s}

\* A query nobody has fetched yet.
NoQuery ==
  [status |-> "pending", phase |-> "idle", fn |-> "none", data |-> <<>>,
   failures |-> 0, req |-> 0]

\* The queryFn an observer of key k would run: RepoItem (one per list entry)
\* passes fetchRepoDetails, useFetchRepo passes the fetch-then-save function;
\* useFetchRepo is enabled only for a non-empty repoName.
Observed(k, fn) ==
  \/ fn = "item" /\ k \in Range(repos)
  \/ fn = "hook" /\ repoName = k /\ k # ""

\* A useQuery that starts a queryFn run for every observer that asks.
StartFetch_NoDedup(k, fn, bound) ==
  /\ Observed(k, fn)
  /\ calls < bound \/ queries[k].fn = "none"
  /\ calls' = calls + 1
  /\ queries' = [queries EXCEPT ![k] =
       [@ EXCEPT !.phase = "get", !.fn = fn, !.failures = 0,
                 !.status = IF queries[k].data = <<>> THEN "pending" ELSE @]]
  /\ UNCHANGED repoName

\* The query of key k starts a fetch with the queryFn of the observer that
\* asks for it (on mount, or when stale data is refetched); a fetch in
\* flight is shared, never doubled. The bound limits retries and refetches,
\* not the first fetch of a key.
StartFetch(k, fn, bound) ==
  /\ Observed(k, fn)
  /\ queries[k].phase = "idle"
  /\ calls < bound \/ queries[k].fn = "none"
  /\ calls' = calls + 1
  /\ queries' = [queries EXCEPT ![k] =
       [@ EXCEPT !.phase = "get", !.fn = fn, !.failures = 0,
                 !.status = IF queries[k].data = <<>> THEN "pending" ELSE @]]
  /\ UNCHANGED repoName

\* A final failure that puts every query in error, not only the failing one.
Rejected_Global(k, bound) ==
  IF queries[k].failures < DefaultRetry
  THEN /\ calls < bound
       /\ calls' = calls + 1
       /\ queries' = [queries EXCEPT ![k] =
            [@ EXCEPT !.phase = "get", !.failures = @ + 1, !.req = 0]]
  ELSE /\ calls' = calls
       /\ queries' = [j \in Keys |->
            IF j = k
            THEN [queries[j] EXCEPT !.phase = "idle", !.failures = @ + 1,
                                    !.req = 0, !.status = "error"]
            ELSE [queries[j] EXCEPT !.status = "error"]]

\* A useQuery with retry: false: the first failure is the error.
Rejected_NoRetry(k, bound) ==
  /\ calls' = calls
  /\ queries' = [queries EXCEPT ![k] =
       [@ EXCEPT !.phase = "idle", !.failures = @ + 1, !.req = 0,
                 !.status = "error"]]

\* The queryFn threw: retried until DefaultRetry retries have failed, then
\* the query is in error. A retry runs the whole queryFn again.
Rejected(k, bound) ==
  IF queries[k].failures < DefaultRetry
  THEN /\ calls < bound
       /\ calls' = calls + 1
       /\ queries' = [queries EXCEPT ![k] =
            [@ EXCEPT !.phase = "get", !.failures = @ + 1, !.req = 0]]
  ELSE /\ calls' = calls
       /\ queries' = [queries EXCEPT ![k] =
            [@ EXCEPT !.phase = "idle", !.failures = @ + 1, !.req = 0,
                      !.status = "error"]]

\* The queryFn returned d.
Resolved(k, d) ==
  queries' = [queries EXCEPT ![k] =
     [@ EXCEPT !.phase = "idle", !.status = "success", !.data = <<d>>,
               !.req = 0]]

\* axios.get(https://api.github.com/repos/k) answers 2xx. fetchRepoDetails
\* returns the record; useFetchRepo's queryFn goes on to
\* axios.post("/api/saveRepo", data).
GetOk(k) ==
  /\ queries[k].phase = "get"
  /\ IF queries[k].fn = "hook"
     THEN /\ Receive(Rec(k), k)
          /\ queries' = [queries EXCEPT ![k] =
               [@ EXCEPT !.phase = "post", !.req = Len(reqs) + 1]]
     ELSE /\ Resolved(k, Rec(k))
          /\ UNCHANGED reqs
  /\ UNCHANGED <<calls, repoName, file, file0>>

\* A queryFn that posts the record even though the GET rejected.
GetFail_PostsAnyway(k, bound) ==
  /\ queries[k].phase = "get"
  /\ Rejected(k, bound)
  /\ Receive(Rec(k), k)
  /\ UNCHANGED <<repoName, file, file0>>

\* A rejection that is dropped: the query is left without result or error.
GetFail_Dropped(k, bound) ==
  /\ queries[k].phase = "get"
  /\ queries' = [queries EXCEPT ![k] = [@ EXCEPT !.phase = "idle"]]
  /\ UNCHANGED <<calls, repoName, serverVars>>

\* axios.get rejects (network, non-2xx).
GetFail(k, bound) ==
  /\ queries[k].phase = "get"
  /\ Rejected(k, bound)
  /\ UNCHANGED <<repoName, serverVars>>

\* A queryFn that returns the record whatever the endpoint answered.
PostOk_IgnoreStatus(k) ==
  /\ queries[k].phase = "post"
  /\ reqs[queries[k].req].pc = "done"
  /\ Resolved(k, reqs[queries[k].req].body)
  /\ UNCHANGED <<calls, repoName, serverVars>>

\* The POST was answered 200: the queryFn returns the fetched record.
PostOk(k) ==
  /\ queries[k].phase = "post"
  /\ reqs[queries[k].req].resp = "ok"
  /\ Resolved(k, reqs[queries[k].req].body)
  /\ UNCHANGED <<calls, repoName, serverVars>>

\* The POST was answered 500: axios.post rejects and so does the queryFn.
PostFail(k, bound) ==
  /\ queries[k].phase = "post"
  /\ reqs[queries[k].req].resp = "500"
  /\ Rejected(k, bound)
  /\ UNCHANGED <<repoName, serverVars>>

\* What the item of key k renders: isLoading, then error, then the record.
View(k) ==
  CASE queries[k].status = "pending" -> "Loading"
    [] queries[k].status = "error" -> "Error"
    [] queries[k].status = "success" -> "Success"

\* The archive-viewing RepoDetails is rendered with repoName k ("" when the
\* parent passes none).
Render(k) ==
  /\ repoName' = k
  /\ UNCHANGED <<queries, calls>>

\* ------------------------------------------------------------ initial state
InitWith(files) ==
  /\ file0 \in files
  /\ file = file0
  /\ reqs = <<>>
  /\ field = ""
  /\ submitCount = 0
  /\ formError = FALSE
  /\ repos = <<>>
  /\ repoName = ""
  /\ queries = [k \in Keys |-> NoQuery]
  /\ calls = 0
  /\ shown = <<>>
  /\ lastNew = <<>>
  /\ load = "sent"
  /\ loadData = Absent

Init == InitWith(Files0)

\* ------------------------------------------- the endpoint under any clients
PostArrive ==
  /\ Len(reqs) < MaxReq
  /\ \E b \in Bodies : Receive(b, "")
  /\ UNCHANGED <<viewVars, file, file0>>
Read == \E r \in DOMAIN reqs : ReadStep(r)
Write == \E r \in DOMAIN reqs : WriteStep(r)

EndpointNext ==
  \/ PostArrive /\ UNCHANGED <<viewVars, formVars, repos, queryVars>>
  \/ Read /\ UNCHANGED <<viewVars, formVars, repos, queryVars>>
  \/ Write /\ UNCHANGED <<viewVars, formVars, repos, queryVars>>

EndpointSpec == Init /\ [][EndpointNext]_vars

\* ----------------------------- one client that awaits each response in turn
PostAwaited == AllDone /\ PostArrive

SeqNext ==
  \/ PostAwaited /\ UNCHANGED <<viewVars, formVars, repos, queryVars>>
  \/ Read /\ UNCHANGED <<viewVars, formVars, repos, queryVars>>
  \/ Write /\ UNCHANGED <<viewVars, formVars, repos, queryVars>>

SeqSpec == Init /\ [][SeqNext]_vars

\* ------------------------------------------------- the form and the store
TypeInput == \E s \in Inputs : Type(s) /\ UNCHANGED repos

FormNext ==
  \/ TypeInput /\ UNCHANGED <<viewVars, serverVars, queryVars>>
  \/ Submit(MaxSubmit) /\ UNCHANGED <<viewVars, serverVars, queryVars>>

FormSpec == Init /\ [][FormNext]_vars

\* ------------- Home: the form, the store and the list display (RepoItem)
ListNext ==
  \/ TypeInput /\ UNCHANGED <<viewVars, serverVars, queryVars>>
  \/ Submit(MaxListSubmit) /\ UNCHANGED <<viewVars, serverVars, queryVars>>
  \/ \E k \in Keys :
       StartFetch(k, "item", MaxListCalls)
         /\ UNCHANGED <<viewVars, serverVars, formVars, repos>>
  \/ \E k \in Keys : GetOk(k) /\ UNCHANGED <<viewVars, formVars, repos>>
  \/ \E k \in Keys : GetFail(k, MaxListCalls) /\ UNCHANGED <<viewVars, formVars, repos>>

ListSpec == Init /\ [][ListNext]_vars

\* The list display under fair scheduling: a mounted item's fetch is
\* started, and a GET in flight is answered.
ListFairNext ==
  \/ TypeInput /\ UNCHANGED <<viewVars, serverVars, queryVars>>
  \/ Submit(MaxFairSubmit) /\ UNCHANGED <<viewVars, serverVars, queryVars>>
  \/ \E k \in Keys :
       StartFetch(k, "item", MaxFairCalls)
         /\ UNCHANGED <<viewVars, serverVars, formVars, repos>>
  \/ \E k \in Keys : GetOk(k) /\ UNCHANGED <<viewVars, formVars, repos>>
  \/ \E k \in Keys :
       GetFail(k, MaxFairCalls) /\ UNCHANGED <<viewVars, formVars, repos>>

ListFairSpec ==
  /\ Init
  /\ [][ListFairNext]_vars
  /\ \A k \in Keys :
       /\ WF_vars(StartFetch(k, "item", MaxFairCalls)
                    /\ UNCHANGED <<viewVars, serverVars, formVars, repos>>)
       /\ WF_vars((GetOk(k) \/ GetFail(k, MaxFairCalls))
                    /\ UNCHANGED <<viewVars, formVars, repos>>)

\* ------- the archive-viewing RepoDetails (useFetchRepo) and the endpoint
HookNext ==
  \/ \E k \in Keys \cup {""} :
       Render(k) /\ UNCHANGED <<viewVars, serverVars, formVars, repos>>
  \/ \E k \in Keys :
       StartFetch(k, "hook", MaxHookCalls)
         /\ UNCHANGED <<viewVars, serverVars, formVars, repos>>
  \/ \E k \in Keys : GetOk(k) /\ UNCHANGED <<viewVars, formVars, repos>>
  \/ \E k \in Keys : GetFail(k, MaxHookCalls) /\ UNCHANGED <<viewVars, formVars, repos>>
  \/ \E k \in Keys : PostOk(k) /\ UNCHANGED <<viewVars, formVars, repos>>
  \/ \E k \in Keys : PostFail(k, MaxHookCalls) /\ UNCHANGED <<viewVars, formVars, repos>>
  \/ Read /\ UNCHANGED <<viewVars, formVars, repos, queryVars>>
  \/ Write /\ UNCHANGED <<viewVars, formVars, repos, queryVars>>

\* The archive at start: missing (every later read finds the array the
\* writes left), or a JSON value that is no array (every POST answers 500).
HookFiles0 == {Absent, NonArray}
HookInit == InitWith(HookFiles0)

HookSpec == HookInit /\ [][HookNext]_vars

\* ------------ the archive-viewing RepoDetails with its displayed list
Reverse(s) == [i \in 1..Len(s) |-> s[Len(s) + 1 - i]]

\* useFetchRepo(name).data: undefined (<<>>) without a repoName or before
\* the first success; the cached record afterwards, kept while refetching.
NewRepo(qs, name) == IF name = "" THEN <<>> ELSE qs[name].data

\* The effect on [newRepo], run after a render in which newRepo changed:
\* a defined newRepo is put at the head of the displayed list.
RunEffect(qs, name) ==
  /\ lastNew' = NewRepo(qs, name)
  /\ shown' = IF NewRepo(qs, name) # lastNew /\ NewRepo(qs, name) # <<>>
              THEN NewRepo(qs, name) \o shown
              ELSE shown

Effect == RunEffect(queries', repoName')

\* The server answers GET /repoData.json with the archive file as it is now.
LoadServed ==
  /\ load = "sent"
  /\ load' = "served"
  /\ loadData' = file
  /\ UNCHANGED <<shown, lastNew>>

\* loadExistingRepos continues after its await: the displayed list is set
\* to the reversed array; a 404 or a body without reverse() is caught and
\* logged.
LoadDone ==
  /\ load = "served"
  /\ load' = "done"
  /\ shown' = IF loadData.kind = "array" THEN Reverse(loadData.data) ELSE shown
  /\ UNCHANGED <<lastNew, loadData>>

\* The GET is lost on the network: axios rejects, the catch logs.
LoadFail ==
  /\ load \in {"sent", "served"}
  /\ load' = "done"
  /\ UNCHANGED <<shown, lastNew, loadData>>

\* The parent renders the component with another repoName.
ViewRender(k) ==
  /\ Len(shown) < MaxShown
  /\ Render(k)
  /\ Effect

\* The archive at start: missing, or holding one record.
ViewFiles0 == {Absent, Serialize(<<Rec("b/b")>>)}
ViewInit == InitWith(ViewFiles0)

ViewNext ==
  \/ \E k \in Keys \cup {""} :
       ViewRender(k)
         /\ UNCHANGED <<serverVars, formVars, repos, load, loadData>>
  \/ \E k \in Keys :
       StartFetch(k, "hook", MaxViewCalls) /\ Effect
         /\ UNCHANGED <<serverVars, formVars, repos, load, loadData>>
  \/ \E k \in Keys :
       GetOk(k) /\ Effect /\ UNCHANGED <<formVars, repos, load, loadData>>
  \/ \E k \in Keys :
       GetFail(k, MaxViewCalls) /\ Effect
         /\ UNCHANGED <<formVars, repos, load, loadData>>
  \/ \E k \in Keys :
       PostOk(k) /\ Effect /\ UNCHANGED <<formVars, repos, load, loadData>>
  \/ \E k \in Keys :
       PostFail(k, MaxViewCalls) /\ Effect
         /\ UNCHANGED <<formVars, repos, load, loadData>>
  \/ Read /\ UNCHANGED <<viewVars, formVars, repos, queryVars>>
  \/ Write /\ UNCHANGED <<viewVars, formVars, repos, queryVars>>
  \/ LoadServed /\ UNCHANGED <<serverVars, formVars, repos, queryVars>>
  \/ LoadDone /\ UNCHANGED <<serverVars, formVars, repos, queryVars>>
  \/ LoadFail /\ UNCHANGED <<serverVars, formVars, repos, queryVars>>

ViewSpec == ViewInit /\ [][ViewNext]_vars

\* ---------------------------------------------------- the whole application
Next ==
  \/ TypeInput /\ UNCHANGED <<viewVars, serverVars, queryVars>>
  \/ Submit(MaxAppSubmit) /\ UNCHANGED <<viewVars, serverVars, queryVars>>
  \/ \E k \in Keys \cup {""} :
       Render(k) /\ UNCHANGED <<viewVars, serverVars, formVars, repos>>
  \/ \E k \in Keys, fn \in {"item", "hook"} :
       StartFetch(k, fn, MaxAppCalls)
         /\ UNCHANGED <<viewVars, serverVars, formVars, repos>>
  \/ \E k \in Keys : GetOk(k) /\ UNCHANGED <<viewVars, formVars, repos>>
  \/ \E k \in Keys : GetFail(k, MaxAppCalls) /\ UNCHANGED <<viewVars, formVars, repos>>
  \/ \E k \in Keys : PostOk(k) /\ UNCHANGED <<viewVars, formVars, repos>>
  \/ \E k \in Keys : PostFail(k, MaxAppCalls) /\ UNCHANGED <<viewVars, formVars, repos>>
  \/ Read /\ UNCHANGED <<viewVars, formVars, repos, queryVars>>
  \/ Write /\ UNCHANGED <<viewVars, formVars, repos, queryVars>>

Spec == Init /\ [][Next]_vars

\* ================================================================ claims
IsPrefix(s, t) == Len(s) <= Len(t) /\ SubSeq(t, 1, Len(s)) = s
IsSuffix(s, t) == Len(s) <= Len(t) /\ SubSeq(t, Len(t) - Len(s) + 1, Len(t)) = s
Done(r) == reqs[r].pc = "done"
Succeeded(r) == Done(r) /\ reqs[r].resp = "ok"
\* What request r read from the file, before it appended its own record.
Snapshot(r) == SubSeq(reqs[r].existing, 1, Len(reqs[r].existing) - 1)
BodiesOf(rs) == [n \in DOMAIN rs |-> rs[n].body]

\* C1: a POST's successful write replaces the file by the contents that POST
\* read earlier plus its own record, whatever was written in between; so two
\* POSTs that read the same contents and both answer success leave only one
\* of their two records in the archive.
C1_WriteOverwrites ==
  [][\A r \in DOMAIN reqs :
       (reqs[r].pc = "write" /\ reqs'[r].io = "ok")
         => file' = Serialize(Append(Snapshot(r), reqs[r].body))]_vars

\* C1 witness: a 1-element archive, two POSTs that read the same contents,
\* both answered with success, and the archive holds 2 elements, not 3.
C1_LostUpdate ==
  /\ file0.kind = "array" /\ Len(file0.data) = 1
  /\ Len(reqs) = 2
  /\ Succeeded(1) /\ Succeeded(2)
  /\ Snapshot(1) = file0.data /\ Snapshot(2) = file0.data
  /\ file.kind = "array" /\ Len(file.data) = 2
  /\ \E r \in {1, 2} : file.data = Append(file0.data, reqs[r].body)

\* C2: when every POST is issued after the previous response and all are
\* answered with success, the archive is the initial contents followed by the
\* posted records in submission order, duplicates included.
C2_SequentialAppend ==
  (file0.kind \in {"absent", "array"} /\ AllDone
     /\ \A r \in DOMAIN reqs : reqs[r].resp = "ok")
    => /\ file.kind \in {"absent", "array"}
       /\ file.data = file0.data \o BodiesOf(reqs)
       /\ Len(file.data) = Len(file0.data) + Len(reqs)
       /\ (Len(reqs) > 0 => file.kind = "array")

\* C2 witness: three awaited POSTs onto a 1-element archive, one of them the
\* record already stored and two of them equal, all kept: 4 elements.
C2_ThreeKeptWithDuplicates ==
  /\ file0.kind = "array" /\ Len(file0.data) = 1
  /\ Len(reqs) = 3 /\ \A r \in DOMAIN reqs : Succeeded(r)
  /\ reqs[1].body = file0.data[1]
  /\ reqs[2].body = reqs[3].body
  /\ Len(file.data) = 4

C4_FailuresAnswered500 ==
  \A r \in DOMAIN reqs :
    Done(r) =>
      /\ (reqs[r].resp = "ok" => reqs[r].io = "ok")
      /\ (reqs[r].io = "fail" => reqs[r].resp = "500")
      /\ (reqs[r].saw = "unparsable" => reqs[r].resp = "500")

\* C5: the archive only grows: the array in the file before a step is a
\* prefix of the array in the file after it.
C5_ArchiveGrowsByPrefix ==
  [][(file.kind = "array" /\ file'.kind = "array")
       => IsPrefix(file.data, file'.data)]_vars

\* C6: every submit of an identifier the form accepts turns the list into
\* that identifier followed by the previous list (first element the
\* identifier, length + 1, previous list kept as the suffix), also when the
\* identifier is already in the list; and nothing else changes the list.
C6_AddRepoPrepends ==
  [][/\ (submitCount' # submitCount /\ Valid(field))
          => /\ repos' = <<field>> \o repos
             /\ repos'[1] = field
             /\ Len(repos') = Len(repos) + 1
             /\ IsSuffix(repos, repos')
     /\ repos' # repos => (submitCount' # submitCount /\ IsSuffix(repos, repos'))
    ]_vars

\* C6 witness: the same identifier was submitted twice and is in the list
\* twice.
C6_DuplicateKept ==
  Len(repos) >= 2 /\ repos[1] = repos[2]

\* C7: a submit of an input shorter than 3 characters leaves the list as it
\* was and shows the validation message; the list changes only on a submit
\* of an input of length at least 3.
C7_ShortNeverAdded ==
  [][/\ (submitCount' # submitCount /\ Len(field) < MinRepoLen)
          => (repos' = repos /\ formError')
     /\ repos' # repos
          => (submitCount' # submitCount /\ Len(field) >= MinRepoLen
                /\ Len(repos'[1]) >= MinRepoLen)
    ]_vars

\* C7 witness: a short identifier was submitted after a valid one: the
\* message is shown and the list still holds the valid one alone.
C7_ShortRejected ==
  /\ Len(field) < MinRepoLen /\ Len(field) > 0
  /\ submitCount = 2 /\ formError
  /\ Len(repos) = 1

C9_FetchedIsPosted ==
  \A k \in Range(repos) :
    queries[k].status = "success"
      => \E r \in DOMAIN reqs : reqs[r].body = Rec(k)

\* C10: useFetchRepo sends a POST only in the step in which the upstream GET
\* of that identifier succeeds, with the fetched record as its body, and a
\* failed GET sends none.
C10_PostAfterFetch ==
  [][/\ reqs' # reqs /\ Len(reqs') > Len(reqs)
          => \E k \in Keys :
               /\ queries[k].phase = "get" /\ queries[k].fn = "hook"
               /\ queries'[k].phase = "post"
               /\ queries'[k].failures = queries[k].failures
               /\ reqs' = Append(reqs, reqs'[Len(reqs')])
               /\ queries'[k].req = Len(reqs')
               /\ reqs'[Len(reqs')].by = k
               /\ reqs'[Len(reqs')].body = Rec(k)
     /\ \A k \in Keys :
          (queries[k].phase = "get"
             /\ queries'[k].failures = queries[k].failures + 1)
            => reqs' = reqs
     /\ \A k \in Keys :
          (queries[k].phase = "get" /\ queries[k].fn = "hook"
             /\ queries'[k].phase # "get")
            => (Len(reqs') = Len(reqs) + 1 \/ queries'[k].status = "error")
    ]_vars

\* C10 witness: the first GET failed and no POST was sent; the retry
\* succeeded and the one POST in flight carries the fetched record.
C10_PostedAfterRetry ==
  /\ queries["a/a"].fn = "hook" /\ queries["a/a"].phase = "post"
  /\ queries["a/a"].failures = 1
  /\ Len(reqs) = 1 /\ reqs[1].body = Rec("a/a") /\ reqs[1].by = "a/a"

\* C16: a POST whose body is not JSON, or which finds a JSON value that is
\* no array in the file, is answered 500 in that very step, before any
\* write: the step leaves the file as it was and the request never writes.
C16_EarlyFailureLeavesFile ==
  [][/\ Len(reqs') > Len(reqs) /\ ~JsonOk(reqs'[Len(reqs')].body)
          => /\ reqs'[Len(reqs')].pc = "done"
             /\ reqs'[Len(reqs')].resp = "500"
             /\ reqs'[Len(reqs')].io = "none"
             /\ file' = file
     /\ \A r \in DOMAIN reqs :
          (reqs[r].pc = "read" /\ reqs'[r] # reqs[r] /\ file.kind = "nonarray")
            => /\ reqs'[r].pc = "done"
               /\ reqs'[r].resp = "500"
               /\ reqs'[r].io = "none"
               /\ file' = file
     /\ \A r \in DOMAIN reqs :
          (reqs[r].pc = "done" /\ reqs[r].io = "none")
            => (reqs'[r] = reqs[r] /\ reqs[r].resp = "500")
    ]_vars

\* C16 witness: the file holds a JSON value that is no array; a POST of a
\* record and a POST of a body that is not JSON were both answered 500 and
\* the file is as it was.
C16_BothEarlyFailures ==
  /\ file0 = NonArray /\ file = file0
  /\ Len(reqs) = 2
  /\ reqs[1].body \in Records /\ reqs[1].resp = "500"
  /\ reqs[1].saw = "nonarray" /\ reqs[1].io = "none"
  /\ reqs[2].body = BadJson /\ reqs[2].resp = "500" /\ reqs[2].io = "none"

\* The POST the queryFn of key k is awaiting.
Awaited(k) == reqs[queries[k].req]

GetFails(k) ==
  queries[k].phase = "get" /\ queries'[k].failures = queries[k].failures + 1

C14_LeavesLoading ==
  /\ \A k \in Keys :
       (k \in Range(repos) /\ View(k) = "Loading") ~> (View(k) # "Loading")
  /\ [][\A k \in Keys :
          queries[k].phase = "get"
            => \/ queries'[k].phase = "get"
               \/ (queries'[k].phase = "idle"
                     /\ queries'[k].status \in {"success", "error"})]_vars

\* C14 witness: both identifiers are listed; one item left Loading for Error
\* after the last retry, the other for Success.
C14_BothSettled ==
  /\ Range(repos) = Keys
  /\ View("a/a") = "Error" /\ queries["a/a"].failures = DefaultRetry + 1
  /\ View("b/b") = "Success"
  /\ \A k \in Keys : queries[k].phase = "idle"

\* C11 as claimed: once an entry is in the displayed list of the
\* archive-viewing display it stays there, whatever the order in which the
\* mount-time archive read and the live fetch complete.
C11_DisplayedEntryStays ==
  [][Range(shown) \subseteq Range(shown')]_vars

====
